---- MODULE Spec2Model ----
(***************************************************************************)
(* Ping-Pong-Go: a poll loop that probes a target over HTTP with retries,  *)
(* counts consecutive failed probe cycles, records the last success and    *)
(* answers /health from that record.  Two variants of the same machine are *)
(* modelled: the root CLI (package main, startPinging with shutdownChan)   *)
(* and the library Service (package pingpong).                             *)
(***************************************************************************)
EXTENDS Integers, Sequences, FiniteSets, TLC

----------------------------------------------------------------------------
(* Bounds of the model *)

\* clock ticks per second: the clock is finer than the stored Unix seconds
SubSec == 2
\* the clock starts at second BaseSec (> 0: the process runs after the epoch)
BaseSec == 1
\* largest numeric MAX_RETRIES / Config.MaxRetries explored
MaxRetriesCfg == 2
\* largest MaxConsecutiveFails explored
MaxFailsCfg == 2

----------------------------------------------------------------------------
(* Program constants *)

StatusOK == 200
StatusServiceUnavailable == 503
StaleMinutes == 15
DefaultMaxRetries == 3
DefaultPingInterval == 2000
Millisecond == 1000000

----------------------------------------------------------------------------
(* Time: time.Now(), Unix seconds, time.Since *)

\* 15 * time.Minute, in clock ticks
StaleWindow == StaleMinutes * 60 * SubSec

\* the instants the clock visits: every tick of the first second of the run, and of
\* the second that begins one staleness window later
Instants ==
    { (BaseSec * SubSec) + (k * StaleWindow) + f : k \in {0, 1}, f \in 0..SubSec }

\* seeded fault: the stored second wraps around every quarter of an hour
UnixWrapped(t) == (t \div SubSec) % (StaleMinutes * 60)

\* time.Now().Unix(): whole seconds, the sub-second part dropped
Unix(t) == t \div SubSec

\* time.Since(time.Unix(sec, 0)) at instant now, in clock ticks
Since(sec, now) == now - (sec * SubSec)

----------------------------------------------------------------------------
(* Configuration *)

Variants == {"cli", "lib"}

\* header maps a Config may carry
HeaderChoices ==
    { [k \in S |-> IF k = "X-Custom-Header" THEN "test-value" ELSE "token"] :
        S \in {{}, {"X-Custom-Header", "Authorization"}} }

\* server URLs: one http.NewRequest accepts, one it rejects
ServerURLs == {"http://target/health", "://bad"}

OwnURLs == {"", "http://localhost:8080/health"}

\* values of the MAX_RETRIES environment variable ("" is unset)
EnvChoices == {"", "abc"} \cup { ToString(n) : n \in 0..MaxRetriesCfg }

\* strconv.Atoi on the strings the model uses
Numerals == (-1..9) \cup {DefaultPingInterval}

Atoi(s) ==
    IF \E n \in Numerals : ToString(n) = s
    THEN [err |-> FALSE, val |-> CHOOSE n \in Numerals : ToString(n) = s]
    ELSE [err |-> TRUE, val |-> 0]

\* http.NewRequest("GET", url, nil) fails on a URL it cannot parse
NewRequestErr(url) == url = "://bad"

----------------------------------------------------------------------------
(* Start-up of the root CLI: flags, environment, validateEnv, setupConfig *)

\* the process environment main works on: the variables of the operating system,
\* with those of a .env file added where the operating system sets none
\* (godotenv.Load overrides nothing); "" is unset
EnvServerURLs == {"", "http://target/health"}
EnvOwnURLs == {"", "http://localhost:8080/health"}
EnvIntervals == {"", "abc", "-1", "0", "5"}
EnvFails == {"", "abc", "-1", "0", "2"}

Envs ==
    [ SERVER_URL : EnvServerURLs,
      OWN_URL : EnvOwnURLs,
      PING_INTERVAL : EnvIntervals,
      MAX_CONSECUTIVE_FAILS : EnvFails ]

\* parseFlags: what the command line gave; "" and 0 are the flags' defaults
FlagChoices ==
    [ ServerURL : {"", "http://target/health"},
      PingInterval : {"", "5"},
      OwnURL : {""},
      MaxConsecutiveFails : {0, 2} ]

NoFlags == [ServerURL |-> "", PingInterval |-> "", OwnURL |-> "", MaxConsecutiveFails |-> 0]

\* applyFlags: a flag that was given replaces the environment variable
applyFlags(f, e) ==
    [ SERVER_URL |-> IF f.ServerURL # "" THEN f.ServerURL ELSE e.SERVER_URL,
      OWN_URL |-> IF f.OwnURL # "" THEN f.OwnURL ELSE e.OWN_URL,
      PING_INTERVAL |-> IF f.PingInterval # "" THEN f.PingInterval ELSE e.PING_INTERVAL,
      MAX_CONSECUTIVE_FAILS |-> IF f.MaxConsecutiveFails > 0
                                THEN ToString(f.MaxConsecutiveFails)
                                ELSE e.MAX_CONSECUTIVE_FAILS ]

\* validateEnv: TRUE when it returns an error. Its defaults live in local
\* variables; the environment is left as it was
validateEnv(e) ==
    LET pingIntervalStr == IF e.PING_INTERVAL = ""
                           THEN ToString(DefaultPingInterval)
                           ELSE e.PING_INTERVAL
        pingInterval == Atoi(pingIntervalStr)
    IN  pingInterval.err \/ pingInterval.val <= 0

\* Config{}, and the struct with its four fields
ZeroConfig == [ServerURL |-> "", PingInterval |-> 0, OwnURL |-> "", MaxConsecutiveFails |-> 0]

\* seeded fault: a MAX_CONSECUTIVE_FAILS of 0 or less is accepted
setupConfigNoValidation(e) ==
    LET maxConsecutiveFailsStr == IF e.MAX_CONSECUTIVE_FAILS = "" THEN "3"
                                  ELSE e.MAX_CONSECUTIVE_FAILS
        maxConsecutiveFails == Atoi(maxConsecutiveFailsStr)
        pingIntervalInt == Atoi(e.PING_INTERVAL)
    IN  IF maxConsecutiveFails.err \/ pingIntervalInt.err
        THEN [err |-> TRUE, cfg |-> ZeroConfig]
        ELSE [err |-> FALSE,
              cfg |-> [ServerURL |-> e.SERVER_URL,
                       PingInterval |-> pingIntervalInt.val * Millisecond,
                       OwnURL |-> e.OWN_URL,
                       MaxConsecutiveFails |-> maxConsecutiveFails.val]]

\* setupConfig reads the environment again, and gives only MAX_CONSECUTIVE_FAILS
\* a default
setupConfig(e) ==
    LET maxConsecutiveFailsStr == IF e.MAX_CONSECUTIVE_FAILS = "" THEN "3"
                                  ELSE e.MAX_CONSECUTIVE_FAILS
        maxConsecutiveFails == Atoi(maxConsecutiveFailsStr)
        pingIntervalInt == Atoi(e.PING_INTERVAL)
    IN  IF maxConsecutiveFails.err THEN [err |-> TRUE, cfg |-> ZeroConfig]
        ELSE IF maxConsecutiveFails.val <= 0 THEN [err |-> TRUE, cfg |-> ZeroConfig]
        ELSE IF pingIntervalInt.err THEN [err |-> TRUE, cfg |-> ZeroConfig]
        ELSE [err |-> FALSE,
              cfg |-> [ServerURL |-> e.SERVER_URL,
                       PingInterval |-> pingIntervalInt.val * Millisecond,
                       OwnURL |-> e.OWN_URL,
                       MaxConsecutiveFails |-> maxConsecutiveFails.val]]

NoSetup == [err |-> FALSE, cfg |-> ZeroConfig]

\* cmd/pingpong: getEnvOrDefault and getEnvIntOrDefault; an unset variable and,
\* for the integer, one that does not parse, give the default
getEnvOrDefault(value, defaultValue) == IF value # "" THEN value ELSE defaultValue

getEnvIntOrDefault(value, defaultValue) ==
    IF value # "" /\ ~Atoi(value).err THEN Atoi(value).val ELSE defaultValue

\* cmd/pingpong main: the pingpong.Config literal
cmdConfig(e) ==
    [ServerURL |-> getEnvOrDefault(e.SERVER_URL, "http://localhost:8081/health"),
     PingInterval |-> getEnvIntOrDefault(e.PING_INTERVAL, DefaultPingInterval) * Millisecond,
     OwnURL |-> getEnvOrDefault(e.OWN_URL, "http://localhost:8080/health"),
     MaxConsecutiveFails |-> getEnvIntOrDefault(e.MAX_CONSECUTIVE_FAILS, 3)]

VARIABLES
    variant,              \* which program runs: root CLI or library Service
    config,               \* Config, built once
    envMaxRetries,        \* os.Getenv("MAX_RETRIES")
    target,               \* how the probed server behaves during the run
    flags,                \* the command line, as parseFlags returned it
    env,                  \* the process environment ("" is unset)
    startPc,              \* position of main before the goroutines start
    setupResult,          \* the Config start-up built, and whether building it failed
    clock,                \* time.Now(), in ticks
    lastPingSuccess,      \* Unix seconds of the last success, 0 = none yet
    consecutiveFailures,  \* local of startPinging
    pc,                   \* position of the polling goroutine
    i,                    \* loop index of pingServer
    maxRetriesInt,        \* attempts per cycle, as pingServer computed it
    req,                  \* header of the request in flight
    tickReady,            \* a tick is waiting in ticker.C
    tickDropped,          \* history: a tick found ticker.C full since the last receive
    stopChan,             \* number of close(stopChan) executed
    shutdownSends,        \* sends on shutdownChan begun by the polling goroutine
    ctxDone,              \* the shared context is cancelled
    mainPc,               \* position of main
    server,               \* the health listener
    shutdownCalls,        \* calls of server.Shutdown
    healthResp,           \* the last answer of /health
    successAt,            \* history: clock instant of the last timestamp store
    attempts,             \* history: attempts begun in the current probe cycle
    last,                 \* history: outcome of the latest attempt of the cycle
    stamped,              \* history: the timestamp was stored in the current cycle
    selfCalls,            \* history: self-check GETs issued in the current cycle
    selfResult,           \* history: how the self-check of the current cycle ended
    cancelledInCycle,     \* history: the context was cancelled during the current cycle
    backoffs,             \* history: backoff waits sat out in the current cycle
    result,               \* history: what pingServer returned for the current cycle
    streak,               \* history: failed cycles since the last successful one
    failedTotal,          \* history: failed cycles of the whole run
    stopReason,           \* history: why the poll loop ended
    sent                  \* history: GETs handed to client.Do since the last 200

cfgVars  == <<variant, config, envMaxRetries, target, flags, env, startPc, setupResult>>
loopVars == <<consecutiveFailures, pc, i, maxRetriesInt, req, stopChan, shutdownSends>>
tickVars == <<tickReady, tickDropped>>
lifeVars == <<ctxDone, mainPc, server, shutdownCalls>>
cycleVars == <<attempts, last, stamped, selfCalls, selfResult, cancelledInCycle, backoffs>>
endVars == <<result, streak, failedTotal, stopReason>>
vars == <<variant, config, envMaxRetries, target, flags, env, startPc, setupResult, clock, lastPingSuccess,
          consecutiveFailures, pc, i, maxRetriesInt, req, tickReady, tickDropped, stopChan,
          shutdownSends, ctxDone, mainPc, server, shutdownCalls, healthResp, successAt, attempts, last, stamped, selfCalls,
          selfResult, cancelledInCycle, backoffs, result, streak, failedTotal,
          stopReason, sent>>

\* the history counters stop counting one past the largest threshold
HistCap == MaxFailsCfg + 1
Bump(n) == IF n < HistCap THEN n + 1 ELSE n

NoHeader == [k \in {} |-> ""]
NoResp == [status |-> 0, body |-> ""]
NoOutcome == [kind |-> "none", code |-> 0, hdr |-> NoHeader]

\* seeded fault: NewService gives a threshold of 0 or less the default of the CLI
NewServiceThresholdDefault(c) ==
    [c EXCEPT !.MaxRetries = IF c.MaxRetries = 0 THEN DefaultMaxRetries ELSE c.MaxRetries,
              !.MaxConsecutiveFails = IF c.MaxConsecutiveFails <= 0 THEN 3
                                      ELSE c.MaxConsecutiveFails]

\* NewService: a zero MaxRetries becomes the default
NewService(c) ==
    [c EXCEPT !.MaxRetries = IF c.MaxRetries = 0 THEN DefaultMaxRetries ELSE c.MaxRetries]

RawConfigs ==
    [ ServerURL : ServerURLs,
      OwnURL : OwnURLs,
      Headers : HeaderChoices,
      MaxConsecutiveFails : 1..MaxFailsCfg,
      MaxRetries : 0..MaxRetriesCfg ]

\* the probed server: it answers every request 200 ("up"), every request 500
\* ("down"), or each request in any way, transport errors included ("any")
Targets == {"any", "up", "down"}

\* the state in which the goroutines start
InitRun ==
    /\ clock = BaseSec * SubSec
    /\ lastPingSuccess = 0
    /\ consecutiveFailures = 0
    /\ pc = "select"
    /\ i = 0
    /\ maxRetriesInt = 0
    /\ req = NoHeader
    /\ tickReady = FALSE
    /\ tickDropped = FALSE
    /\ stopChan = 0
    /\ shutdownSends = 0
    /\ ctxDone = FALSE
    /\ mainPc = "select"
    /\ server = "listening"
    /\ shutdownCalls = 0
    /\ healthResp = NoResp
    /\ successAt = 0
    /\ attempts = 0
    /\ last = NoOutcome
    /\ stamped = FALSE
    /\ selfCalls = 0
    /\ selfResult = "none"
    /\ cancelledInCycle = FALSE
    /\ backoffs = 0
    /\ result = "none"
    /\ streak = 0
    /\ failedTotal = 0
    /\ stopReason = "none"
    /\ sent = 0

Init ==
    /\ variant \in Variants
    /\ target \in Targets
    /\ envMaxRetries \in EnvChoices
    /\ \E c \in RawConfigs :
         \* the root CLI's Config has no MaxRetries field; the library reads no environment
         /\ variant = "cli" => c.MaxRetries = 0
         /\ variant = "lib" => envMaxRetries = ""
         /\ config = IF variant = "lib" THEN NewService(c) ELSE c
    \* start-up is over: the environment is one that produced this Config
    /\ flags = NoFlags
    /\ env = [SERVER_URL |-> config.ServerURL,
              OWN_URL |-> config.OwnURL,
              PING_INTERVAL |-> "5",
              MAX_CONSECUTIVE_FAILS |-> ToString(config.MaxConsecutiveFails)]
    /\ startPc = "running"
    /\ setupResult = IF variant = "cli" THEN setupConfig(env) ELSE NoSetup
    /\ InitRun

\* the process has not exited: its goroutines still run
Alive == mainPc # "exited"

\* pingServer is running: a probe cycle is in progress
InCycle == pc \in {"loop", "inflight", "backoff", "selfcheck"}

----------------------------------------------------------------------------
(* The health handler *)

HealthyBody == "Ping-Pong-Go Server is healthy"
NeverBody == "No successful pings yet"
StaleBody == "Last successful ping was too long ago"

\* seeded fault: the handler without its "no ping yet" branch
healthCheckHandlerNoZero(lastPing, now) ==
    IF Since(lastPing, now) > StaleWindow
    THEN [status |-> StatusServiceUnavailable, body |-> StaleBody]
    ELSE [status |-> StatusOK, body |-> HealthyBody]

\* seeded fault: the handler comparing against 15 hours
healthCheckHandlerHours(lastPing, now) ==
    IF lastPing = 0
    THEN [status |-> StatusServiceUnavailable, body |-> NeverBody]
    ELSE IF Since(lastPing, now) > StaleWindow * 60
         THEN [status |-> StatusServiceUnavailable, body |-> StaleBody]
         ELSE [status |-> StatusOK, body |-> HealthyBody]

healthCheckHandler(lastPing, now) ==
    IF lastPing = 0
    THEN [status |-> StatusServiceUnavailable, body |-> NeverBody]
    ELSE IF Since(lastPing, now) > StaleWindow
         THEN [status |-> StatusServiceUnavailable, body |-> StaleBody]
         ELSE [status |-> StatusOK, body |-> HealthyBody]

\* seeded fault: the handler also looks at the poll loop and reports failing probes
HealthRequestCountsFailures ==
    /\ Alive
    /\ server = "listening"
    /\ healthResp' = IF consecutiveFailures > 0 \/ stopReason = "threshold"
                     THEN [status |-> StatusServiceUnavailable, body |-> StaleBody]
                     ELSE healthCheckHandler(lastPingSuccess, clock)
    /\ UNCHANGED <<cfgVars, sent, clock, lastPingSuccess, loopVars, tickVars, lifeVars,
                   successAt, cycleVars, endVars>>

\* seeded fault: the handler waits for a lock that pingServer holds for the whole cycle
HealthRequestBlocking ==
    /\ Alive
    /\ server = "listening"
    /\ ~InCycle
    /\ healthResp' = healthCheckHandler(lastPingSuccess, clock)
    /\ UNCHANGED <<cfgVars, sent, clock, lastPingSuccess, loopVars, tickVars, lifeVars,
                   successAt, cycleVars, endVars>>

\* GET /health, served while the listener runs
HealthRequest ==
    /\ Alive
    /\ server = "listening"
    /\ healthResp' = healthCheckHandler(lastPingSuccess, clock)
    /\ UNCHANGED <<cfgVars, sent, clock, lastPingSuccess, loopVars, tickVars, lifeVars,
                   successAt, cycleVars, endVars>>

\* time passes
Advance ==
    /\ Alive
    /\ \E t \in Instants : t > clock /\ clock' = t
    /\ UNCHANGED <<cfgVars, sent, lastPingSuccess, loopVars, tickVars, lifeVars, healthResp,
                   successAt, cycleVars, endVars>>

----------------------------------------------------------------------------
(* pingServer and callOwnHealthCheck *)

\* what the target can answer; a transport error is the other outcome of client.Do
Statuses == {200, 204, 500}
\* what a target of the given behaviour answers
Answers(t) == IF t = "up" THEN {200} ELSE IF t = "down" THEN {500} ELSE Statuses
\* what the own URL can answer to the self-check
SelfStatuses == {200, 503}

\* the attempt bound of a probe cycle: MAX_RETRIES through Atoi in the root CLI,
\* Config.MaxRetries in the library
ReadMaxRetries ==
    IF variant = "cli"
    THEN Atoi(IF envMaxRetries = "" THEN ToString(DefaultMaxRetries) ELSE envMaxRetries)
    ELSE [err |-> FALSE, val |-> config.MaxRetries]

\* seeded fault: the request leaves without the configured headers
SetHeadersDropped(hdr, headers) == hdr

\* for key, value := range config.Headers { req.Header.Set(key, value) }
SetHeaders(hdr, headers) ==
    [k \in (DOMAIN hdr) \cup (DOMAIN headers) |->
        IF k \in DOMAIN headers THEN headers[k] ELSE hdr[k]]

\* seeded fault: any 2xx status counts as success
IsSuccess2xx(code) == code \in 200..299

\* resp.StatusCode == http.StatusOK
IsSuccess(code) == code = StatusOK

\* seeded fault: the loop gives up one attempt early
MoreRetriesShort(idx, max) == idx < max - 2

\* i < maxRetriesInt-1: another attempt follows a failed one
MoreRetries(idx, max) == idx < max - 1

\* seeded fault: the self-check is called whatever the own URL
ShouldCallOwnAlways(ownURL) == TRUE

\* callOwnHealthCheck issues its GET unless the own URL is empty
ShouldCallOwn(ownURL) == ownURL # ""

\* seeded fault: a failed self-check fails the probe
ResultAfterSelfCheckStrict(selfOK) == selfOK

\* what pingServer returns once callOwnHealthCheck has returned
ResultAfterSelfCheck(selfOK) == TRUE

----------------------------------------------------------------------------
(* startPinging: the accounting of one probe result *)

\* seeded fault: a failure is not counted
NextFailuresNotCounted(success, cf) == IF success THEN 0 ELSE cf

\* seeded fault: a success leaves the counter as it is
NextFailuresNoReset(success, cf) == IF success THEN cf ELSE cf + 1

\* success resets the counter, failure increments it
NextFailures(success, cf) == IF success THEN 0 ELSE cf + 1

\* seeded fault: the threshold is compared with the failed attempts, not the failed cycles
ThresholdReachedPerAttempt(cf, max) == ((cf - 1) * maxRetriesInt) + attempts >= max

\* seeded fault: the threshold is compared with >
ThresholdReachedLate(cf, max) == cf > max

\* consecutiveFailures >= maxConsecutiveFailures
ThresholdReached(cf, max) == cf >= max

\* seeded fault: the threshold branch lacks its return and falls back into the select
AfterThresholdNoReturn == "select"

\* after close(stopChan) the goroutine sends on shutdownChan and returns (root CLI);
\* the library's loop just returns
AfterThreshold == IF variant = "cli" THEN "send" ELSE "done"

\* pingServer has returned `success` to the select loop of startPinging
Return(success) ==
    LET cf == NextFailures(success, consecutiveFailures)
        stop == (~success) /\ ThresholdReached(cf, config.MaxConsecutiveFails)
    IN  /\ consecutiveFailures' = cf
        /\ result' = IF success THEN "ok" ELSE "fail"
        /\ streak' = IF success THEN 0 ELSE Bump(streak)
        /\ failedTotal' = IF success THEN failedTotal ELSE Bump(failedTotal)
        /\ IF stop
           THEN /\ stopReason' = "threshold"
                /\ pc' = AfterThreshold
                /\ IF variant = "cli"
                   THEN \* close(stopChan); shutdownChan <- struct{}{} blocks until received
                        /\ stopChan' = stopChan + 1
                        /\ shutdownSends' = shutdownSends + 1
                   ELSE \* the library only returns
                        UNCHANGED <<stopChan, shutdownSends>>
           ELSE /\ pc' = "select"
                /\ UNCHANGED <<stopChan, shutdownSends, stopReason>>

\* pingServer goes on: nothing is returned to startPinging in this step
Continue(next) ==
    /\ pc' = next
    /\ UNCHANGED <<consecutiveFailures, stopChan, shutdownSends, endVars>>

\* seeded fault: ticker.C queues the ticks that fire while the loop is busy
AfterReceiveQueued(dropped) == dropped

\* whether ticker.C holds a tick right after one has been received from it: the
\* channel of time.NewTicker has room for one tick
AfterReceive(dropped) == FALSE

\* the ticker fires; ticker.C holds one tick, a tick that finds it full is dropped
Tick ==
    /\ Alive
    /\ IF variant = "cli" THEN stopChan = 0 ELSE pc # "done"
    /\ tickReady' = TRUE
    /\ tickDropped' = (tickDropped \/ tickReady)
    /\ UNCHANGED <<cfgVars, sent, clock, lastPingSuccess, loopVars, lifeVars, healthResp,
                   successAt, cycleVars, endVars>>

\* select: case <-ctx.Done()
SelectCtxDone ==
    /\ Alive
    /\ pc = "select"
    /\ ctxDone
    /\ pc' = "done"
    /\ stopChan' = IF variant = "cli" THEN stopChan + 1 ELSE stopChan
    /\ stopReason' = "ctx"
    /\ UNCHANGED <<cfgVars, sent, clock, lastPingSuccess, consecutiveFailures, i, maxRetriesInt,
                   req, shutdownSends, tickVars, lifeVars, healthResp, successAt,
                   cycleVars, result, streak, failedTotal>>

\* select: case <-ticker.C, and the entry of pingServer up to its loop
SelectTick ==
    /\ Alive
    /\ pc = "select"
    /\ tickReady
    /\ tickReady' = AfterReceive(tickDropped)
    /\ tickDropped' = FALSE
    /\ attempts' = 0
    /\ last' = NoOutcome
    /\ stamped' = FALSE
    /\ selfCalls' = 0
    /\ selfResult' = "none"
    /\ cancelledInCycle' = FALSE
    /\ backoffs' = 0
    /\ i' = 0
    /\ maxRetriesInt' = ReadMaxRetries.val
    /\ IF ReadMaxRetries.err
       THEN Return(FALSE)
       ELSE /\ pc' = "loop"
            /\ result' = "none"
            /\ UNCHANGED <<consecutiveFailures, stopChan, shutdownSends, streak,
                           failedTotal, stopReason>>
    /\ UNCHANGED <<cfgVars, sent, clock, lastPingSuccess, req, lifeVars, healthResp, successAt>>

\* the head of the retry loop: leave it, or build the request and hand it to client.Do
Attempt ==
    /\ Alive
    /\ pc = "loop"
    /\ IF i >= maxRetriesInt
       THEN /\ Return(FALSE)
            /\ UNCHANGED <<i, req, attempts, last>>
       ELSE /\ attempts' = attempts + 1
            /\ IF NewRequestErr(config.ServerURL)
               THEN /\ last' = [kind |-> "request", code |-> 0, hdr |-> NoHeader]
                    /\ req' = NoHeader
                    /\ IF variant = "cli" /\ i = maxRetriesInt - 1
                       THEN Return(FALSE) /\ UNCHANGED i
                       ELSE Continue("loop") /\ i' = i + 1
               ELSE /\ req' = SetHeaders(NoHeader, config.Headers)
                    /\ Continue("inflight")
                    /\ UNCHANGED <<i, last>>
    /\ sent' = IF i < maxRetriesInt /\ ~NewRequestErr(config.ServerURL) THEN sent + 1 ELSE sent
    /\ UNCHANGED <<cfgVars, clock, lastPingSuccess, maxRetriesInt, tickVars, lifeVars,
                   healthResp, successAt, stamped, selfCalls, selfResult,
                   cancelledInCycle, backoffs>>

\* client.Do returns an error
TransportError ==
    /\ Alive
    /\ pc = "inflight"
    /\ target = "any"
    /\ last' = [kind |-> "transport", code |-> 0, hdr |-> req]
    /\ IF MoreRetries(i, maxRetriesInt) THEN Continue("backoff") ELSE Return(FALSE)
    /\ UNCHANGED <<cfgVars, sent, clock, lastPingSuccess, i, maxRetriesInt, req, tickVars,
                   lifeVars, healthResp, successAt, attempts, stamped, selfCalls,
                   selfResult, cancelledInCycle, backoffs>>

\* seeded fault: the timestamp is not stored before the self-check is issued
StatusResponseStoreLate ==
    /\ Alive
    /\ pc = "inflight"
    /\ \E code \in Answers(target) :
         /\ last' = [kind |-> "status", code |-> code, hdr |-> req]
         /\ IF IsSuccess(code)
            THEN /\ lastPingSuccess' = IF ShouldCallOwn(config.OwnURL)
                                       THEN lastPingSuccess ELSE Unix(clock)
                 /\ successAt' = IF ShouldCallOwn(config.OwnURL) THEN successAt ELSE clock
                 /\ stamped' = ~ShouldCallOwn(config.OwnURL)
                 /\ IF ShouldCallOwn(config.OwnURL)
                    THEN Continue("selfcheck") /\ selfCalls' = selfCalls + 1
                    ELSE Return(TRUE) /\ UNCHANGED selfCalls
            ELSE /\ IF MoreRetries(i, maxRetriesInt)
                    THEN Continue("backoff")
                    ELSE Return(FALSE)
                 /\ UNCHANGED <<lastPingSuccess, successAt, stamped, selfCalls>>
         /\ sent' = IF IsSuccess(code) THEN 0 ELSE sent
    /\ UNCHANGED <<cfgVars, clock, i, maxRetriesInt, req, tickVars, lifeVars, healthResp,
                   attempts, selfResult, cancelledInCycle, backoffs>>

\* client.Do returns the target's answer
StatusResponse ==
    /\ Alive
    /\ pc = "inflight"
    /\ \E code \in Answers(target) :
         /\ last' = [kind |-> "status", code |-> code, hdr |-> req]
         /\ IF IsSuccess(code)
            THEN /\ lastPingSuccess' = Unix(clock)
                 /\ successAt' = clock
                 /\ stamped' = TRUE
                 /\ IF ShouldCallOwn(config.OwnURL)
                    THEN Continue("selfcheck") /\ selfCalls' = selfCalls + 1
                    ELSE Return(TRUE) /\ UNCHANGED selfCalls
            ELSE /\ IF MoreRetries(i, maxRetriesInt)
                    THEN Continue("backoff")
                    ELSE Return(FALSE)
                 /\ UNCHANGED <<lastPingSuccess, successAt, stamped, selfCalls>>
         /\ sent' = IF IsSuccess(code) THEN 0 ELSE sent
    /\ UNCHANGED <<cfgVars, clock, i, maxRetriesInt, req, tickVars, lifeVars, healthResp,
                   attempts, selfResult, cancelledInCycle, backoffs>>

\* time.Sleep(1 * time.Second) is over: continue with the next attempt
Backoff ==
    /\ Alive
    /\ pc = "backoff"
    /\ i' = i + 1
    /\ backoffs' = backoffs + 1
    /\ Continue("loop")
    /\ UNCHANGED <<cfgVars, sent, clock, lastPingSuccess, maxRetriesInt, req, tickVars,
                   lifeVars, healthResp, successAt, attempts, last, stamped, selfCalls,
                   selfResult, cancelledInCycle>>

\* http.Get(ownURL) has ended (code 0: with an error); pingServer returns
SelfCheckDone ==
    /\ Alive
    /\ pc = "selfcheck"
    /\ \E code \in SelfStatuses \cup {0} :
         /\ selfResult' = IF code = StatusOK THEN "ok" ELSE "fail"
         /\ Return(ResultAfterSelfCheck(code = StatusOK))
    /\ UNCHANGED <<cfgVars, sent, clock, lastPingSuccess, i, maxRetriesInt, req, tickVars,
                   lifeVars, healthResp, successAt, attempts, last, stamped, selfCalls,
                   cancelledInCycle, backoffs>>

----------------------------------------------------------------------------
(* main, the interrupt and the health listener *)

\* SIGINT / SIGTERM cancels the context of signal.NotifyContext
Interrupt ==
    /\ Alive
    /\ ~ctxDone
    /\ ctxDone' = TRUE
    /\ cancelledInCycle' = InCycle
    /\ UNCHANGED <<cfgVars, sent, clock, lastPingSuccess, loopVars, tickVars, mainPc, server,
                   shutdownCalls, healthResp, successAt, attempts, last, stamped,
                   selfCalls, selfResult, backoffs, endVars>>

\* seeded fault: main receives the signal and does not call stop()
MainRecvShutdownNoStop ==
    /\ variant = "cli"
    /\ mainPc = "select"
    /\ pc = "send"
    /\ pc' = "done"
    /\ mainPc' = "cleanup"
    /\ UNCHANGED <<cfgVars, sent, clock, lastPingSuccess, consecutiveFailures, i, maxRetriesInt,
                   req, stopChan, shutdownSends, tickVars, ctxDone, server, shutdownCalls,
                   healthResp, successAt, cycleVars, endVars>>

\* root CLI main: case <-shutdownChan, then stop()
MainRecvShutdown ==
    /\ variant = "cli"
    /\ mainPc = "select"
    /\ pc = "send"
    /\ pc' = "done"
    /\ mainPc' = "cleanup"
    /\ ctxDone' = TRUE
    /\ UNCHANGED <<cfgVars, sent, clock, lastPingSuccess, consecutiveFailures, i, maxRetriesInt,
                   req, stopChan, shutdownSends, tickVars, server, shutdownCalls,
                   healthResp, successAt, cycleVars, endVars>>

\* main: <-ctx.Done()
MainCtxDone ==
    /\ mainPc = "select"
    /\ ctxDone
    /\ mainPc' = "cleanup"
    /\ UNCHANGED <<cfgVars, sent, clock, lastPingSuccess, loopVars, tickVars, ctxDone, server,
                   shutdownCalls, healthResp, successAt, cycleVars, endVars>>

\* seeded fault: startServer waits for ctx.Done() in a loop and calls Shutdown again
ServerShutdownAgain ==
    /\ Alive
    /\ server \in {"listening", "shuttingdown"}
    /\ shutdownCalls < 2
    /\ IF variant = "cli" THEN ctxDone ELSE mainPc = "cleanup"
    /\ server' = "shuttingdown"
    /\ shutdownCalls' = shutdownCalls + 1
    /\ UNCHANGED <<cfgVars, sent, clock, lastPingSuccess, loopVars, tickVars, ctxDone, mainPc,
                   healthResp, successAt, cycleVars, endVars>>

\* server.Shutdown is called: after <-ctx.Done() in startServer, inside Service.Stop in
\* the library; the listener stops accepting requests
ServerShutdown ==
    /\ Alive
    /\ server = "listening"
    /\ IF variant = "cli" THEN ctxDone ELSE mainPc = "cleanup"
    /\ server' = "shuttingdown"
    /\ shutdownCalls' = shutdownCalls + 1
    /\ UNCHANGED <<cfgVars, sent, clock, lastPingSuccess, loopVars, tickVars, ctxDone, mainPc,
                   healthResp, successAt, cycleVars, endVars>>

\* a program that uses the library calls Service.Stop, whatever the state of the
\* context it gave to Start (cmd/pingpong calls it once that context is done)
StopCalled ==
    /\ variant = "lib"
    /\ mainPc = "select"
    /\ mainPc' = "cleanup"
    /\ UNCHANGED <<cfgVars, sent, clock, lastPingSuccess, loopVars, tickVars, ctxDone, server,
                   shutdownCalls, healthResp, successAt, cycleVars, endVars>>

\* server.Shutdown returns: the requests in flight have ended, or its 5 seconds have
ShutdownDone ==
    /\ Alive
    /\ server = "shuttingdown"
    /\ server' = "stopped"
    /\ UNCHANGED <<cfgVars, sent, clock, lastPingSuccess, loopVars, tickVars, ctxDone, mainPc,
                   shutdownCalls, healthResp, successAt, cycleVars, endVars>>

\* ListenAndServe returns an error other than http.ErrServerClosed (the port is taken,
\* the listener breaks): the goroutine that ran it logs the error and ends
ListenError ==
    /\ Alive
    /\ server = "listening"
    /\ server' = "failed"
    /\ UNCHANGED <<cfgVars, sent, clock, lastPingSuccess, loopVars, tickVars, ctxDone, mainPc,
                   shutdownCalls, healthResp, successAt, cycleVars, endVars>>

\* main returns.  cmd/pingpong returns when Service.Stop has, that is when Shutdown
\* has.  The root CLI returns 2 seconds after its select, whatever the other
\* goroutines are doing; the 2 seconds are taken to be enough for startServer, which
\* the cancellation has made runnable, to reach its call of Shutdown, and for nothing
\* more.
MainExit ==
    /\ mainPc = "cleanup"
    /\ IF variant = "lib" THEN server = "stopped" ELSE server # "listening"
    /\ mainPc' = "exited"
    /\ UNCHANGED <<cfgVars, sent, clock, lastPingSuccess, loopVars, tickVars, ctxDone, server,
                   shutdownCalls, healthResp, successAt, cycleVars, endVars>>

----------------------------------------------------------------------------
(* Specifications *)

Next ==
    \/ Tick
    \/ SelectCtxDone
    \/ SelectTick
    \/ Attempt
    \/ TransportError
    \/ StatusResponse
    \/ Backoff
    \/ SelfCheckDone
    \/ Interrupt
    \/ MainRecvShutdown
    \/ MainCtxDone
    \/ ServerShutdown
    \/ ShutdownDone
    \/ MainExit
    \/ HealthRequest

\* the whole machine over every configuration, the clock standing still
Spec == Init /\ [][Next]_vars

\* one configuration per variant, with time passing
InitClock ==
    /\ Init
    /\ config.ServerURL = "http://target/health"
    /\ config.OwnURL # ""
    /\ config.Headers = NoHeader
    /\ config.MaxConsecutiveFails = 2
    /\ target = "any"
    /\ variant = "cli" => envMaxRetries = "2"
    /\ variant = "lib" => config.MaxRetries = 2

NextClock == Next \/ Advance

SpecClock == InitClock /\ [][NextClock]_vars

\* What the Go runtime gives the program: a goroutine that can take its next step
\* takes it, a select none of whose ready cases stays unchosen for ever, a ticker
\* that keeps firing, a target that answers every request it is sent.  Signals,
\* requests to /health and the passing of time are not owed.
Fairness ==
    /\ WF_vars(Tick)
    /\ WF_vars(SelectCtxDone)
    /\ WF_vars(SelectTick)
    /\ WF_vars(Attempt)
    /\ WF_vars(TransportError)
    /\ WF_vars(StatusResponse)
    /\ WF_vars(Backoff)
    /\ WF_vars(SelfCheckDone)
    /\ WF_vars(MainRecvShutdown)
    /\ WF_vars(MainCtxDone)
    /\ WF_vars(ServerShutdown)
    /\ WF_vars(ShutdownDone)
    /\ WF_vars(MainExit)

\* the root CLI against a target that answers 500 to every request
InitDown ==
    /\ Init
    /\ variant = "cli"
    /\ target = "down"

\* the steps of such a run when no signal reaches the process
NextDown ==
    \/ Tick
    \/ SelectTick
    \/ Attempt
    \/ StatusResponse
    \/ Backoff
    \/ MainRecvShutdown
    \/ ServerShutdown
    \/ ShutdownDone
    \/ MainExit
    \/ HealthRequest

SpecDown == InitDown /\ [][NextDown]_vars /\ Fairness

\* the root CLI with every step the runtime owes it
InitLive ==
    /\ Init
    /\ variant = "cli"
    /\ target = "any"
    /\ config.ServerURL = "http://target/health"
    /\ config.OwnURL # ""
    /\ config.Headers = NoHeader
    /\ config.MaxConsecutiveFails \in {1, 2}
    /\ envMaxRetries \in {"1", "2"}

SpecLive == InitLive /\ [][Next]_vars /\ Fairness

\* the library inside a program of its user, as in the README: Start with some
\* context, Stop when the program chooses
InitLibrary ==
    /\ Init
    /\ variant = "lib"
    /\ target = "any"
    /\ config.Headers = NoHeader

NextLibrary ==
    \/ Tick
    \/ SelectCtxDone
    \/ SelectTick
    \/ Attempt
    \/ TransportError
    \/ StatusResponse
    \/ Backoff
    \/ SelfCheckDone
    \/ Interrupt
    \/ StopCalled
    \/ ServerShutdown
    \/ ShutdownDone
    \/ MainExit
    \/ HealthRequest

SpecLibrary == InitLibrary /\ [][NextLibrary]_vars

\* the library with a Config whose MaxConsecutiveFails was left at zero, or is
\* negative: NewService checks nothing but MaxRetries and the Logger
UncheckedConfigs ==
    [ ServerURL : ServerURLs,
      OwnURL : OwnURLs,
      Headers : {NoHeader},
      MaxConsecutiveFails : -1..0,
      MaxRetries : 0..MaxRetriesCfg ]

InitUnchecked ==
    /\ variant = "lib"
    /\ target \in Targets
    /\ envMaxRetries = ""
    /\ \E c \in UncheckedConfigs : config = NewService(c)
    /\ flags = NoFlags
    /\ env = [SERVER_URL |-> config.ServerURL,
              OWN_URL |-> config.OwnURL,
              PING_INTERVAL |-> "5",
              MAX_CONSECUTIVE_FAILS |-> ToString(config.MaxConsecutiveFails)]
    /\ startPc = "running"
    /\ setupResult = NoSetup
    /\ InitRun

SpecUnchecked == InitUnchecked /\ [][NextLibrary]_vars

\* the root CLI with a health listener that may fail
NextListen == Next \/ ListenError

SpecListen == InitLive /\ [][NextListen]_vars /\ Fairness

----------------------------------------------------------------------------
(* Start-up of the root CLI *)

runVars == <<clock, lastPingSuccess, loopVars, tickVars, lifeVars, healthResp, successAt,
             cycleVars, endVars, sent>>

\* setupFlags: applyFlags writes the flags that were given into the environment
MainSetupFlags ==
    /\ startPc = "flags"
    /\ env' = applyFlags(flags, env)
    /\ startPc' = "validate"
    /\ UNCHANGED <<variant, config, envMaxRetries, target, flags, setupResult, runVars>>

\* main: validateEnv, os.Exit(1) on its error
MainValidateEnv ==
    /\ startPc = "validate"
    /\ startPc' = IF validateEnv(env) THEN "exit1" ELSE "setup"
    /\ UNCHANGED <<variant, config, envMaxRetries, target, flags, env, setupResult, runVars>>

\* main: setupConfig, os.Exit(1) on its error; otherwise the goroutines start
\* with the Config it returned
MainSetupConfig ==
    /\ startPc = "setup"
    /\ setupResult' = setupConfig(env)
    /\ IF setupResult'.err
       THEN startPc' = "exit1" /\ UNCHANGED config
       ELSE /\ startPc' = "running"
            /\ config' = [ServerURL |-> setupResult'.cfg.ServerURL,
                          OwnURL |-> setupResult'.cfg.OwnURL,
                          Headers |-> NoHeader,
                          MaxConsecutiveFails |-> setupResult'.cfg.MaxConsecutiveFails,
                          MaxRetries |-> 0]
    /\ UNCHANGED <<variant, envMaxRetries, target, flags, env, runVars>>

\* setupConfig called on the environment as it is, as the test suite calls it
CallSetupConfig ==
    /\ startPc = "flags"
    /\ setupResult' = setupConfig(env)
    /\ startPc' = "returned"
    /\ UNCHANGED <<variant, config, envMaxRetries, target, flags, env, runVars>>

InitConfig ==
    /\ variant = "cli"
    /\ target = "any"
    /\ envMaxRetries = ""
    /\ flags \in FlagChoices
    /\ env \in Envs
    /\ startPc = "flags"
    /\ setupResult = NoSetup
    /\ config = [ServerURL |-> "", OwnURL |-> "", Headers |-> NoHeader,
                 MaxConsecutiveFails |-> 0, MaxRetries |-> 0]
    /\ InitRun

NextConfig ==
    \/ MainSetupFlags
    \/ MainValidateEnv
    \/ MainSetupConfig
    \/ CallSetupConfig

SpecConfig == InitConfig /\ [][NextConfig]_vars

\* cmd/pingpong main: the flags that were given are written into the environment
CmdSetupFlags ==
    /\ startPc = "cmdflags"
    /\ env' = applyFlags(flags, env)
    /\ startPc' = "cmdconfig"
    /\ UNCHANGED <<variant, config, envMaxRetries, target, flags, setupResult, runVars>>

\* cmd/pingpong main: the Config literal and NewService; nothing is validated
CmdBuildConfig ==
    /\ startPc = "cmdconfig"
    /\ setupResult' = [err |-> FALSE, cfg |-> cmdConfig(env)]
    /\ config' = NewService([ServerURL |-> setupResult'.cfg.ServerURL,
                             OwnURL |-> setupResult'.cfg.OwnURL,
                             Headers |-> NoHeader,
                             MaxConsecutiveFails |-> setupResult'.cfg.MaxConsecutiveFails,
                             MaxRetries |-> getEnvIntOrDefault(envMaxRetries, DefaultMaxRetries)])
    /\ startPc' = "cmdstart"
    /\ UNCHANGED <<variant, envMaxRetries, target, flags, env, runVars>>

\* service.Start: the listener goroutine and the polling goroutine are started;
\* time.NewTicker panics in the polling goroutine on an interval of 0 or less
CmdServiceStart ==
    /\ startPc = "cmdstart"
    /\ startPc' = IF setupResult.cfg.PingInterval <= 0 THEN "panicked" ELSE "running"
    /\ UNCHANGED <<variant, config, envMaxRetries, target, flags, env, setupResult, runVars>>

\* both entry points, from the command line to the start of the goroutines
InitStartup ==
    /\ variant \in Variants
    /\ target = "any"
    /\ envMaxRetries = ""
    /\ flags \in FlagChoices
    /\ env \in Envs
    /\ startPc = IF variant = "cli" THEN "flags" ELSE "cmdflags"
    /\ setupResult = NoSetup
    /\ config = [ServerURL |-> "", OwnURL |-> "", Headers |-> NoHeader,
                 MaxConsecutiveFails |-> 0, MaxRetries |-> 0]
    /\ InitRun

NextStartup ==
    \/ MainSetupFlags
    \/ MainValidateEnv
    \/ MainSetupConfig
    \/ CmdSetupFlags
    \/ CmdBuildConfig
    \/ CmdServiceStart

SpecStartup == InitStartup /\ [][NextStartup]_vars

----------------------------------------------------------------------------
(* Claims *)

\* 15 minutes in clock ticks, as the claims state it
FifteenMinutes == 15 * 60 * SubSec

\* the latest attempt of the cycle got an answer with this status
Answered(code) == last.kind = "status" /\ last.code = code
\* the latest attempt of the cycle failed
LastFailed ==
    \/ last.kind \in {"request", "transport"}
    \/ last.kind = "status" /\ last.code # 200

\* C1: while no probe has ever succeeded (lastPingSuccess = 0), every answer /health
\* has given is 503 with the body "No successful pings yet", whatever the time and
\* however many probes have failed.
C1_NoSuccessAnswers503 ==
    (lastPingSuccess = 0 /\ healthResp # NoResp)
        => healthResp = [status |-> 503, body |-> "No successful pings yet"]

\* C1 witness: /health has answered after a failed probe cycle and more than a
\* staleness window after the start, and still no probe has succeeded.
C1_Witness ==
    /\ lastPingSuccess = 0
    /\ healthResp = [status |-> 503, body |-> "No successful pings yet"]
    /\ failedTotal >= 1
    /\ clock > (BaseSec * SubSec) + FifteenMinutes

\* C2 (as claimed): a /health request at most 15 minutes after the instant of the last
\* successful probe is answered 200 with the healthy body.
C2_FreshAnswers200 ==
    [][ (HealthRequest /\ successAt # 0 /\ clock - successAt <= FifteenMinutes)
            => healthResp' = [status |-> 200, body |-> "Ping-Pong-Go Server is healthy"] ]_vars

\* C3: a /health request more than 15 minutes after the instant of the last successful
\* probe is answered 503 with the body "Last successful ping was too long ago".
C3_StaleAnswers503 ==
    [][ (HealthRequest /\ successAt # 0 /\ clock - successAt > FifteenMinutes)
            => healthResp' = [status |-> 503,
                              body |-> "Last successful ping was too long ago"] ]_vars

\* C3 witness: /health has answered "too long ago" more than 15 minutes after a success.
C3_Witness ==
    /\ successAt # 0
    /\ clock - successAt > FifteenMinutes
    /\ healthResp = [status |-> 503, body |-> "Last successful ping was too long ago"]
    /\ healthResp.body # "No successful pings yet"

\* C4: a successful probe cycle leaves consecutiveFailures at 0 and no shutdown
\* signalled, whatever failures came before it; the loop stops on the threshold only
\* after MaxConsecutiveFails failures in a row.
C4_SuccessResets ==
    /\ result = "ok" =>
         /\ consecutiveFailures = 0
         /\ shutdownSends = 0
         /\ stopReason # "threshold"
    /\ (stopReason = "threshold" \/ shutdownSends > 0) =>
         streak >= config.MaxConsecutiveFails

\* C4 witness: as many failed cycles as the threshold, separated by a success, then a
\* success: the counter is 0 and the loop still runs.
C4_Witness ==
    /\ result = "ok"
    /\ config.MaxConsecutiveFails >= 2
    /\ failedTotal >= config.MaxConsecutiveFails
    /\ consecutiveFailures = 0
    /\ shutdownSends = 0
    /\ stopReason = "none"

\* C5: in the root CLI the send on shutdownChan is begun exactly once the run of failed
\* cycles has reached MaxConsecutiveFails: not before, and never a second time.
C5_ShutdownSentOnce ==
    variant = "cli" =>
        shutdownSends = IF streak >= config.MaxConsecutiveFails THEN 1 ELSE 0

\* C5 witness: two failed cycles in a row, the signal sent once and received by main.
C5_Witness ==
    /\ variant = "cli"
    /\ config.MaxConsecutiveFails = 2
    /\ streak = 2
    /\ shutdownSends = 1
    /\ pc = "done"
    /\ mainPc = "cleanup"

\* C6: a cycle whose n-th attempt is answered 200 reports success, makes no attempt
\* after it, and calls the self-check once when the own URL is set and never when it
\* is empty; the attempts before the n-th all failed.
C6_NthAttemptSucceeds ==
    /\ result = "ok" =>
         /\ Answered(200)
         /\ attempts \in 1..maxRetriesInt
         /\ attempts = i + 1
         /\ selfCalls = IF config.OwnURL = "" THEN 0 ELSE 1
    /\ Answered(200) =>
         /\ pc \notin {"loop", "inflight", "backoff"}
         /\ pc # "selfcheck" => result = "ok"
    /\ pc = "backoff" => LastFailed

\* C6 witness: the first attempt failed, the second was answered 200, the self-check
\* was called once.
C6_Witness ==
    /\ result = "ok"
    /\ attempts = 2
    /\ selfCalls = 1
    /\ config.OwnURL # ""

\* C7: a cycle whose maxRetries attempts all fail makes exactly maxRetries attempts,
\* reports failure and never calls the self-check.
C7_AllAttemptsFail ==
    /\ attempts <= IF maxRetriesInt > 0 THEN maxRetriesInt ELSE 0
    /\ (result = "fail" /\ maxRetriesInt >= 1) =>
         /\ attempts = maxRetriesInt
         /\ LastFailed
         /\ selfCalls = 0
    /\ (maxRetriesInt >= 1 /\ attempts = maxRetriesInt /\ LastFailed
          /\ pc \notin {"loop", "inflight"}) => result = "fail"

\* C7 witness: two attempts, both failed, the second with a transport error.
C7_Witness ==
    /\ result = "fail"
    /\ maxRetriesInt >= 2
    /\ attempts = maxRetriesInt
    /\ last.kind = "transport"
    /\ selfCalls = 0

\* C8: the timestamp is stored, the self-check called and the cycle reported
\* successful only on an answer with status exactly 200; any other status, 204
\* included, is a failed attempt.
C8_OnlyStatus200Succeeds ==
    /\ last.kind = "status" => (stamped <=> last.code = 200)
    /\ last.kind # "status" => ~stamped
    /\ selfCalls > 0 => Answered(200)
    /\ result = "ok" => Answered(200)
    /\ (last.kind = "status" /\ last.code # 200) => result # "ok"

\* C8 witness: the only answers so far were 204: the cycle failed, nothing was stored.
C8_Witness ==
    /\ Answered(204)
    /\ result = "fail"
    /\ ~stamped
    /\ lastPingSuccess = 0
    /\ selfCalls = 0

\* C9: a failed self-check leaves the cycle successful, consecutiveFailures at 0 and
\* no shutdown signalled, and the self-check is called once.
C9_SelfCheckSwallowed ==
    selfResult = "fail" =>
        /\ result = "ok"
        /\ consecutiveFailures = 0
        /\ selfCalls = 1
        /\ shutdownSends = 0
        /\ stopReason # "threshold"

\* C9 witness: one failure short of the threshold, a probe succeeds and its self-check
\* fails.
C9_Witness ==
    /\ selfResult = "fail"
    /\ result = "ok"
    /\ failedTotal >= 1
    /\ failedTotal = config.MaxConsecutiveFails - 1

\* C10: every request handed to the client, and every request the target answered,
\* carries each configured header with its configured value.
C10_HeadersOnEveryAttempt ==
    /\ pc = "inflight" =>
         \A k \in DOMAIN config.Headers :
             k \in DOMAIN req /\ req[k] = config.Headers[k]
    /\ last.kind = "status" =>
         \A k \in DOMAIN config.Headers :
             k \in DOMAIN last.hdr /\ last.hdr[k] = config.Headers[k]

\* C10 witness: a retry was answered by the target and carried the two headers.
C10_Witness ==
    /\ last.kind = "status"
    /\ attempts >= 2
    /\ pc # "inflight"
    /\ DOMAIN config.Headers = {"X-Custom-Header", "Authorization"}
    /\ last.hdr["X-Custom-Header"] = "test-value"

\* C11: against a target that answers 500 to every request, with no signal from
\* outside, the root CLI's startPinging eventually sends the automatic-shutdown
\* signal and main, waiting in its select, receives it; for one attempt per cycle
\* and a threshold of 2 as for every other threshold and retry setting.
C11_EventuallySignals ==
    <>(shutdownSends = 1 /\ stopReason = "threshold" /\ pc = "done" /\ mainPc # "select")

\* two cycles of one attempt each were answered 500 and the signal was received
C11_Witness ==
    /\ target = "down"
    /\ config.MaxConsecutiveFails = 2
    /\ maxRetriesInt = 1
    /\ attempts = 1
    /\ Answered(500)
    /\ failedTotal = 2
    /\ shutdownSends = 1
    /\ pc = "done"
    /\ mainPc = "cleanup"

\* C12: against a target that answers 200 to every request startPinging never sends
\* the automatic-shutdown signal, whatever the number of ticks and the threshold.
C12_UpNeverSignals ==
    target = "up" => shutdownSends = 0

\* some probe cycle has run to its end
ProbeCompleted == failedTotal > 0 \/ (lastPingSuccess # 0 /\ pc # "selfcheck")

\* C13: against a target that answers 200 to every request /health answers 503 as
\* long as no probe cycle has taken place, and 200 once a probe cycle has completed,
\* after the first tick as after every later one.
C13_UpTurnsHealthy ==
    [][(HealthRequest /\ target = "up") =>
         /\ (failedTotal = 0 /\ lastPingSuccess = 0) => healthResp'.status = 503
         /\ ProbeCompleted => healthResp'.status = 200]_vars

\* the configurations under which every probe cycle sends at least one request
SendsRequests ==
    /\ ~NewRequestErr(config.ServerURL)
    /\ ~ReadMaxRetries.err
    /\ ReadMaxRetries.val >= 1

\* what holds of C12 and C13 when every cycle sends a request and the clock stands
C12_UpNeverSignalsWhenSent ==
    (target = "up" /\ SendsRequests) => shutdownSends = 0

C13_UpTurnsHealthyWhenSent ==
    [][(HealthRequest /\ target = "up" /\ SendsRequests) =>
         /\ (failedTotal = 0 /\ lastPingSuccess = 0) => healthResp'.status = 503
         /\ ProbeCompleted => healthResp'.status = 200]_vars

\* C14: in the root CLI, once the poll loop has reached the threshold the context
\* gets cancelled and the listener's Shutdown is called, and a signal that main has
\* received has cancelled the context.
C14_ThresholdStopsService ==
    /\ (stopReason = "threshold") ~> (ctxDone /\ shutdownCalls = 1)
    /\ []((stopReason = "threshold" /\ pc = "done") => ctxDone)

\* main has received the signal and Shutdown is under way
C14_Witness ==
    /\ variant = "cli"
    /\ stopReason = "threshold"
    /\ shutdownSends = 1
    /\ pc = "done"
    /\ mainPc = "cleanup"
    /\ ctxDone
    /\ shutdownCalls = 1
    /\ server = "shuttingdown"

\* a step the program takes by itself: any step but a signal or a request from outside
OwnStep ==
    \/ Tick
    \/ SelectCtxDone
    \/ SelectTick
    \/ Attempt
    \/ TransportError
    \/ StatusResponse
    \/ Backoff
    \/ SelfCheckDone
    \/ MainRecvShutdown
    \/ MainCtxDone
    \/ ServerShutdown
    \/ ShutdownDone
    \/ MainExit

\* C15: in the library as cmd/pingpong runs it, reaching the threshold brings the
\* service down without a signal from outside: as long as the listener still runs
\* after the threshold, the program has a step of its own left to take.
C15_LibraryStopsItself ==
    (variant = "lib" /\ stopReason = "threshold" /\ ~ctxDone /\ server = "listening")
        => ENABLED OwnStep

\* C16: whichever of the interrupt and the automatic signal comes first, the
\* listener's Shutdown is called once and only after a cancellation: never a second
\* time when the other trigger follows, and once by the time the process ends.
C16_ShutdownOnce ==
    /\ shutdownCalls <= 1
    /\ shutdownCalls = 1 <=> server # "listening"
    /\ shutdownCalls = 1 => ctxDone
    /\ mainPc = "exited" => shutdownCalls = 1

\* the interrupt came first, the threshold after it: its signal waits unreceived
\* while the one shutdown has run
C16_Witness ==
    /\ variant = "cli"
    /\ ctxDone
    /\ mainPc = "cleanup"
    /\ stopReason = "threshold"
    /\ shutdownSends = 1
    /\ pc = "send"
    /\ shutdownCalls = 1
    /\ server = "stopped"

\* C17: once the context is cancelled startPinging serves no tick, neither one that
\* was ready when the cancellation came nor one that fires after it.
C17_NoTickServedAfterCancel ==
    [][ctxDone => ~(tickReady /\ ~tickReady')]_vars

\* C18: when the context is cancelled while a probe cycle is in progress, the cycle
\* sends no attempt beyond the one in flight and does not sit out its backoff wait.
C18_NoRetryAfterCancel ==
    [][(cancelledInCycle /\ attempts >= 1 /\ pc \in {"loop", "backoff"}) =>
         /\ pc' # "inflight"
         /\ pc = "backoff" => pc' # "loop"]_vars

\* C19: the poll loop stops once and stays stopped: stopChan is never closed twice,
\* it is closed exactly when the loop of the root CLI has stopped, after the
\* threshold no probe cycle runs and no tick is served, and a stopped loop never
\* resumes, however cancellation and threshold interleave.
C19_StoppedOnce ==
    /\ [](stopChan <= 1)
    /\ [](variant = "cli" => (stopChan = 1 <=> pc \in {"send", "done"}))
    /\ [](stopReason # "none" => pc \in {"send", "done"})
    /\ [][(pc \in {"send", "done"}) => (pc' \in {"send", "done"})]_vars
    /\ [][stopReason # "none" => ~(tickReady /\ ~tickReady')]_vars

\* the threshold was crossed and the interrupt came on top of it, main not yet past
\* its select: stopChan has been closed once
C19_Witness ==
    /\ variant = "cli"
    /\ stopReason = "threshold"
    /\ pc = "send"
    /\ ctxDone
    /\ mainPc = "select"
    /\ tickReady
    /\ stopChan = 1

\* C20: shutdown goes in order: the listener's Shutdown is called only when no probe
\* is in progress, and the process exits only when Shutdown has returned and no
\* probe is in progress.
C20_OrderedShutdown ==
    /\ server # "listening" => pc \notin {"loop", "inflight", "backoff", "selfcheck"}
    /\ mainPc = "exited" =>
         /\ server = "stopped"
         /\ pc \notin {"loop", "inflight", "backoff", "selfcheck"}

\* C21: a health listener that has failed brings the process to its end: the
\* service does not go on probing without its health endpoint.
C21_ListenerFailureEndsProcess ==
    (server = "failed") ~> (mainPc = "exited")

\* C22: once Service.Stop has returned no further probe is sent to the target,
\* whether or not the context given to Start is ever cancelled.
C22_NoProbeAfterStop ==
    [][(variant = "lib" /\ server = "stopped") => ~(pc # "inflight" /\ pc' = "inflight")]_vars

\* C23: with maxRetries configured as 0 (MAX_RETRIES=0 for the root CLI, whatever
\* NewService has made of Config.MaxRetries for the library) every probe cycle that
\* has run has made at least one attempt.
C23_ZeroRetriesStillProbes ==
    (result # "none" /\ (variant = "cli" => envMaxRetries = "0")) => attempts >= 1

\* C24: in a probe cycle one backoff is waited after each failed attempt that is
\* not the last, whatever made it fail, and none after the last attempt or after
\* a success: before the next attempt is begun there have been as many backoffs
\* as attempts, and otherwise one fewer.
C24_OneBackoffBetweenAttempts ==
    /\ (pc = "loop" /\ attempts < maxRetriesInt) => backoffs = attempts
    /\ (pc \in {"inflight", "selfcheck"}) => backoffs = attempts - 1
    /\ (result # "none" /\ attempts >= 1) => backoffs = attempts - 1

\* what holds of C24 when the request can be built
C24_OneBackoffWhenRequestBuilt ==
    ~NewRequestErr(config.ServerURL) => C24_OneBackoffBetweenAttempts

C26_HealthNeverWaits ==
    /\ (mainPc # "exited" /\ server = "listening"
          /\ pc \in {"loop", "inflight", "backoff", "selfcheck"}) => ENABLED HealthRequest
    /\ lastPingSuccess \in {0, successAt \div SubSec}
    /\ healthResp.status = 200 => lastPingSuccess # 0

\* /health has answered 200 from the store of an earlier cycle while the current
\* cycle sits in its backoff
C26_Witness ==
    /\ pc = "backoff"
    /\ ~stamped
    /\ lastPingSuccess # 0
    /\ healthResp.status = 200
    /\ server = "listening"

\* C27: the last-success timestamp is written only by the step in which an attempt
\* gets status 200, that step sets it to the second of the current time, and a
\* probe cycle that ends in failure has left the stored value as it was.
C27_StampOnlyOn200 ==
    [][/\ (lastPingSuccess' # lastPingSuccess) =>
              (pc = "inflight" /\ last'.kind = "status" /\ last'.code = 200)
       /\ (pc = "inflight" /\ pc' # "inflight" /\ last'.kind = "status" /\ last'.code = 200) =>
              lastPingSuccess' = clock \div SubSec
       /\ (result = "none" /\ result' = "fail") =>
              (lastPingSuccess' = lastPingSuccess /\ ~stamped')]_vars

\* a cycle has failed at a later time than the stored success, which is still there
C27_Witness ==
    /\ result = "fail"
    /\ attempts >= 1
    /\ ~stamped
    /\ lastPingSuccess # 0
    /\ lastPingSuccess = successAt \div SubSec
    /\ clock > successAt

\* C28: the failure counter stays between 0 and MaxConsecutiveFails, and it is the
\* number of probe cycles that have failed since the last one that succeeded,
\* counted one completed cycle after the other.
C28_CounterInRange ==
    /\ consecutiveFailures >= 0
    /\ consecutiveFailures <= config.MaxConsecutiveFails
    /\ consecutiveFailures = streak

\* the counter has gone up, back to 0 on a success, and up again to the threshold
C28_Witness ==
    /\ config.MaxConsecutiveFails = 2
    /\ lastPingSuccess # 0
    /\ failedTotal >= 3
    /\ consecutiveFailures = 2
    /\ stopReason = "threshold"

\* setupConfig has returned
SetupReturned == startPc \in {"returned", "running"} \/ (startPc = "exit1" /\ setupResult.err)

\* the integer a string of the environment denotes, where it denotes one
IsInteger(str) == \E n \in Numerals : ToString(n) = str
IntegerOf(str) == CHOOSE n \in Numerals : ToString(n) = str

StartupOver == startPc \in {"running", "exit1"}

\* C30: with SERVER_URL, PING_INTERVAL and OWN_URL unset (no flag, no environment
\* value, no .env file) the root CLI starts and runs with the documented
\* defaults: target http://localhost:8081/health, interval 2000 ms, own URL
\* http://localhost:8080/health.
C30_RunsWithDefaults ==
    ( /\ StartupOver
      /\ flags.ServerURL = "" /\ flags.PingInterval = "" /\ flags.OwnURL = ""
      /\ env.SERVER_URL = "" /\ env.PING_INTERVAL = "" /\ env.OWN_URL = ""
      /\ env.MAX_CONSECUTIVE_FAILS \in {"", "2"} )
    => /\ startPc = "running"
       /\ config.ServerURL = "http://localhost:8081/health"
       /\ config.OwnURL = "http://localhost:8080/health"
       /\ setupResult.cfg.PingInterval = DefaultPingInterval * Millisecond

\* the flags have been applied and a setting of the environment is invalid
InvalidSetting ==
    /\ startPc \notin {"flags", "cmdflags"}
    /\ \/ env.PING_INTERVAL \in {"abc", "-1", "0"}
       \/ env.MAX_CONSECUTIVE_FAILS \in {"abc", "-1", "0"}

\* C31: an invalid setting (ping interval or consecutive-failure threshold that
\* is not a number or not positive) makes the process exit non-zero before the
\* poll loop or the health listener is started, in the root main and in
\* cmd/pingpong main: start-up never gets to the point where the goroutines run.
C31_InvalidSettingExits ==
    InvalidSetting => startPc \notin {"running", "panicked"}

\* what holds: the root main exits with status 1 on every invalid setting
C31_RootExitsOnInvalid ==
    (variant = "cli" /\ InvalidSetting) => startPc \in {"validate", "setup", "exit1"}

\* C32: the polling goroutine of the root CLI always terminates: whenever it is
\* blocked in its send on the unbuffered shutdownChan, main is still at the
\* select that receives from it, also when an interrupt arrived at the same time
\* and main took that branch; the send is never left without a receiver.
C32_SendAlwaysReceived ==
    (variant = "cli" /\ pc = "send") => (mainPc = "select" /\ ENABLED MainRecvShutdown)

\* what holds: without an interrupt the send is received
C32_SendReceivedWithoutInterrupt ==
    (variant = "cli" /\ pc = "send" /\ ~ctxDone) => ENABLED MainRecvShutdown

\* attempts per cycle as configured: MAX_RETRIES for the root CLI (3 when unset,
\* none when it is not a number), Config.MaxRetries for the library
ConfiguredRetries ==
    IF variant = "lib" THEN config.MaxRetries
    ELSE IF envMaxRetries = "" THEN 3
    ELSE IF IsInteger(envMaxRetries) THEN IntegerOf(envMaxRetries)
    ELSE 0

\* C33: against a target that fails every attempt, at the moment the loop
\* decides to stop on the threshold the number of GET requests handed to the
\* HTTP client is exactly maxRetries x MaxConsecutiveFails, and while the loop
\* runs it is maxRetries for every failed cycle plus the attempts of the current
\* one: the failure counter advances once per cycle, not once per attempt.
C33_RequestsBeforeShutdown ==
    (lastPingSuccess = 0 /\ ~NewRequestErr(config.ServerURL)) =>
        /\ stopReason = "threshold" => sent = ConfiguredRetries * config.MaxConsecutiveFails
        /\ (stopReason = "none" /\ pc \in {"inflight", "backoff"}) =>
              sent = (ConfiguredRetries * consecutiveFailures) + attempts

\* two attempts in each of two cycles were answered 500, and the loop stopped
C33_Witness ==
    /\ target = "down"
    /\ config.MaxConsecutiveFails = 2
    /\ ConfiguredRetries = 2
    /\ stopReason = "threshold"
    /\ failedTotal = 2
    /\ sent = 4

C35_TurnsStaleOnlyAfterWindow ==
    [][(HealthRequest /\ healthResp.status = 200 /\ healthResp'.status = 503)
          => clock - successAt > FifteenMinutes]_vars

\* what holds: the answer turns to 503 only when the stored second is more than
\* 15 minutes old, which can be up to a second early
C35_TurnsStaleOnStoredSecond ==
    [][(HealthRequest /\ healthResp.status = 200 /\ healthResp'.status = 503)
          => clock - ((successAt \div SubSec) * SubSec) > FifteenMinutes]_vars

\* C36: in a successful probe cycle the last-success timestamp is stored before
\* the self-check GET is issued: when the cycle enters its self-check the store
\* holds the second of this success, and a /health request served while the
\* self-check is under way is never answered "No successful pings yet".
C36_StoredBeforeSelfCheck ==
    [][/\ (pc # "selfcheck" /\ pc' = "selfcheck") =>
             (selfCalls' = 1 /\ stamped' /\ lastPingSuccess' # 0
                /\ lastPingSuccess' = clock \div SubSec)
       /\ (HealthRequest /\ pc = "selfcheck") =>
             (healthResp'.body # "No successful pings yet" /\ healthResp'.status = 200)]_vars

\* the first success of the run: /health has answered 200 while the self-check
\* GET of that cycle was under way
C36_Witness ==
    /\ pc = "selfcheck"
    /\ selfCalls = 1
    /\ failedTotal = 0
    /\ stamped
    /\ healthResp = [status |-> 200, body |-> "Ping-Pong-Go Server is healthy"]

\* C37: once a successful probe has set the last-success timestamp it never goes
\* back to 0 and never decreases in a later probe, and from then on /health never
\* answers "No successful pings yet" again.
C37_TimestampNeverGoesBack ==
    [][/\ (lastPingSuccess # 0) => (lastPingSuccess' # 0 /\ lastPingSuccess' >= lastPingSuccess)
       /\ (successAt # 0) => (lastPingSuccess' # 0)
       /\ (HealthRequest /\ successAt # 0) => healthResp'.body # "No successful pings yet"]_vars

\* /health answered "too long ago" on the timestamp of a first success, and a
\* later success has since replaced that timestamp by a larger one
C37_Witness ==
    /\ healthResp = [status |-> 503, body |-> "Last successful ping was too long ago"]
    /\ successAt > FifteenMinutes
    /\ lastPingSuccess = successAt \div SubSec
    /\ lastPingSuccess > BaseSec + 1

\* C38: the library does not replace a MaxConsecutiveFails of zero or less by a
\* default, as it does for MaxRetries: the Service runs with it, and its ping
\* routine stops for good at the end of the first probe cycle that fails.
C38_ZeroThresholdStopsAtFirstFailure ==
    [][/\ config.MaxConsecutiveFails \in {-1, 0} /\ config.MaxRetries >= 1
       /\ (failedTotal' >= 1) =>
             (failedTotal' = 1 /\ stopReason' = "threshold" /\ pc' = "done")
       /\ (pc = "done") => (pc' = "done")]_vars

\* after a successful cycle the first failed one has stopped the routine, and
\* the tick that came later will never be served
C38_Witness ==
    /\ variant = "lib"
    /\ config.MaxConsecutiveFails = 0
    /\ lastPingSuccess # 0
    /\ failedTotal = 1
    /\ consecutiveFailures = 1
    /\ stopReason = "threshold"
    /\ pc = "done"
    /\ tickReady
    /\ server = "listening"
====
